---- MODULE Spec2Model ----
(***************************************************************************)
(* Model of ppcg_qc_from_sanger/extract_qc.py: the batch run               *)
(* extract_from_sanger and the functions it calls (get_all_bas,            *)
(* get_all_variant_call_tar, get_all_t_n_pairs,                            *)
(* get_validated_tn_pair_and_bas_lists, get_all_meta, get_t_n_pair_meta).  *)
(* Strings are TLA+ strings; a character is a string of length one.        *)
(***************************************************************************)
EXTENDS Integers, Sequences, FiniteSets, TLC

VARIABLES
    cwd,                \* the process's current working directory
    OUTPUT_HEADER,      \* the module-level list OUTPUT_HEADER (extract_qc.py:58)
    pc,                 \* position of the current extract_from_sanger call
    err,                \* the exception that ended the call, if any
    args,               \* the argparse namespace handed to the call
    out_file,           \* what is on disk at args.output_tar
    touched,            \* kinds of input path located or opened so far
    tumour_bas,         \* local tumour_bas (line 149)
    normal_bas,         \* local normal_bas (line 150)
    variant_call_tars,  \* local variant_call_tars (line 151)
    t_n_pair_tar,       \* local t_n_pair_tar, an insertion-ordered dict
    t_name_bas,         \* local t_name_bas, an insertion-ordered dict
    n_name_bas,         \* local n_name_bas, an insertion-ordered dict
    t_n_pair_meta,      \* local t_n_pair_meta: unbound, or the stub tuple
    count_variants,     \* local count_variants (line 159)
    report,             \* what was written to the metrics file o, line by line
    extractor_calls,    \* SangerQcMetricsExtractor objects constructed
    probe               \* one direct call of get_all_bas and its outcome

vars ==
    <<cwd, OUTPUT_HEADER, pc, err, args, out_file, touched, tumour_bas,
      normal_bas, variant_call_tars, t_n_pair_tar, t_name_bas, n_name_bas,
      t_n_pair_meta, count_variants, report, extractor_calls, probe>>

\* ------------------------------------------------------------- bounds

\* longest variant_call_tar argument list of a run
MaxTars == 2
\* calls with count_variants set that one process makes
MaxVariantRuns == 1
\* longest argument list of a direct get_all_bas call
MaxProbePaths == 2

\* --------------------------------------------------------------- text

Char(s, i) == SubSeq(s, i, i)

\* the printable ASCII characters of code points 32..95 and 97..126
AsciiLow ==
    " !\"#$%&'()*+,-./0123456789:;<=>?@ABCDEFGHIJKLMNOPQRSTUVWXYZ[\\]^_"

AsciiHigh == "abcdefghijklmnopqrstuvwxyz{|}~"

IndexIn(s, c) == CHOOSE i \in 1..Len(s) : Char(s, i) = c

\* the characters of s
Chars(s) == {Char(s, i) : i \in 1..Len(s)}

\* code point of each character the model's strings are made of
CodePoint ==
    [c \in Chars(AsciiLow) \cup Chars(AsciiHigh) \cup {"\n", "\t"} |->
        IF c = "\n" THEN 10
        ELSE IF c = "\t" THEN 9
        ELSE IF c \in Chars(AsciiLow) THEN 31 + IndexIn(AsciiLow, c)
        ELSE 96 + IndexIn(AsciiHigh, c)]

\* ord(c)
Ord(c) == CodePoint[c]

\* a < b for Python str: code point by code point, a proper prefix first
RECURSIVE StrLess(_, _)
StrLess(a, b) ==
    IF b = "" THEN FALSE
    ELSE IF a = "" THEN TRUE
    ELSE IF Char(a, 1) = Char(b, 1)
         THEN StrLess(SubSeq(a, 2, Len(a)), SubSeq(b, 2, Len(b)))
         ELSE Ord(Char(a, 1)) < Ord(Char(b, 1))

\* sorted(S) for a set of str
RECURSIVE sorted(_)
sorted(S) ==
    IF S = {} THEN <<>>
    ELSE LET m == CHOOSE x \in S : \A y \in S \ {x} : StrLess(x, y)
         IN  <<m>> \o sorted(S \ {m})

\* sep.join(names)
RECURSIVE join(_, _)
join(sep, names) ==
    IF names = <<>> THEN ""
    ELSE IF Len(names) = 1 THEN names[1]
    ELSE names[1] \o sep \o join(sep, Tail(names))

\* a faulty \w that leaves the underscore out, to try C3 against
IsWordNoUnderscore(c) ==
    /\ c \in DOMAIN CodePoint
    /\ \/ (Ord(c) >= 48 /\ Ord(c) <= 57)
       \/ (Ord(c) >= 65 /\ Ord(c) <= 90)
       \/ (Ord(c) >= 97 /\ Ord(c) <= 122)

\* the regular-expression class \w (ASCII letters, digits, underscore)
IsWord(c) ==
    /\ c \in DOMAIN CodePoint
    /\ \/ (Ord(c) >= 48 /\ Ord(c) <= 57)
       \/ (Ord(c) >= 65 /\ Ord(c) <= 90)
       \/ (Ord(c) >= 97 /\ Ord(c) <= 122)
       \/ c = "_"

\* the class [\w\-]
IsNameChar(c) == IsWord(c) \/ c = "-"

\* every character of s[from..to] is in [\w\-]
AllNameChars(s, from, to) == \A i \in from..to : IsNameChar(Char(s, i))

\* the positions at which $ matches in s: the end, and just before a final
\* line feed
DollarEnds(s) ==
    {Len(s)} \cup (IF Len(s) > 0 /\ Char(s, Len(s)) = "\n" THEN {Len(s) - 1} ELSE {})

NoMatch == [matched |-> FALSE, t |-> "", n |-> ""]

\* re.match(r'^WGS_([\w\-]+)_vs_([\w\-]+)$', name): the first group is greedy,
\* so of all the ways to split the name the one with the longest first group
\* is the match
PairingMatch(name) ==
    LET splits ==
            {<<i, e>> \in (6..Len(name)) \X DollarEnds(name) :
                /\ i + 4 <= e
                /\ SubSeq(name, 1, 4) = "WGS_"
                /\ SubSeq(name, i, i + 3) = "_vs_"
                /\ AllNameChars(name, 5, i - 1)
                /\ AllNameChars(name, i + 4, e)}
    IN  IF splits = {} THEN NoMatch
        ELSE LET s == CHOOSE x \in splits : \A y \in splits : y[1] <= x[1]
             IN  [matched |-> TRUE,
                  t |-> SubSeq(name, 5, s[1] - 1),
                  n |-> SubSeq(name, s[1] + 4, s[2])]

\* re.match(r'.+<suffix>$', name) for a literal suffix: at least one character
\* other than a line feed, then the suffix, then the end
SuffixMatch(name, suffix) ==
    \E e \in DollarEnds(name) :
        /\ e > Len(suffix)
        /\ SubSeq(name, e - Len(suffix) + 1, e) = suffix
        /\ \A i \in 1..(e - Len(suffix)) : Char(name, i) # "\n"

\* re.match(r'.+\.bam\.bas$', name)
BasNameMatch(name) == SuffixMatch(name, ".bam.bas")

\* re.match(r'.+\.tsv$', name)
TsvNameMatch(name) == SuffixMatch(name, ".tsv")

\* re.match(r'\.tar.gz$', name): anchored at the start of the name, and the
\* dot before gz is any character but a line feed
TarNameMatch(name) ==
    /\ 7 \in DollarEnds(name)
    /\ SubSeq(name, 1, 4) = ".tar"
    /\ Char(name, 5) # "\n"
    /\ SubSeq(name, 6, 7) = "gz"

\* --------------------------------------------------------- file system

File(p, fmt, sample, members) ==
    [path |-> p, kind |-> "file", fmt |-> fmt, sample |-> sample, members |-> members]

Directory(p) ==
    [path |-> p, kind |-> "dir", fmt |-> "", sample |-> "", members |-> <<>>]

\* The files and directories of the runs checked.  fmt is what the content
\* is (a BAS table, a gzipped tar, anything else), sample the sample name a
\* BAS table carries, members the member names of an archive in archive order.
FS ==
    { File("/t1.bam.bas", "bas", "T1", <<>>),
      File("/t2.bam.bas", "bas", "T2", <<>>),
      File("/n1.bam.bas", "bas", "N1", <<>>),
      File("/m.tsv", "other", "", <<>>),
      File("/a.tar.gz", "tar", "", <<"WGS_T1_vs_N1">>),
      File("/b.tar.gz", "tar", "", <<"caveman/f.vcf", "WGS_T2_vs_N1", "WGS_T1_vs_N1">>),
      File("/j.tar.gz", "tar", "", <<"WGS_T1_vs_N1_extra_junk">>),
      File("/l.tar.gz", "tar", "", <<"WGS_T2_vs_N2\n">>),
      File("/r.tar.gz", "tar", "",
           <<"README", "XWGS_T1_vs_N1", "WGS__vs_N1", "WGS_T.1_vs_N1", "WGS_T1_vs_">>),
      Directory("/in"),
      Directory("/in/sub"),
      File("/in/notes.txt", "other", "", <<>>),
      Directory("/in/old.bam.bas"),
      Directory("/data"),
      Directory("/data/sub"),
      File("/data/T1.bam.bas", "bas", "T1", <<>>),
      File("/data/x.tar.gz", "tar", "", <<"WGS_T2_vs_N1">>),
      File("/data/m.tsv", "other", "", <<>>),
      Directory("/work") }

\* os.listdir(path), in the order the file system gives the entries
listdir(path) ==
    CASE path = "/in" -> <<"sub", "notes.txt", "old.bam.bas">>
      [] path = "/data" -> <<"sub", "T1.bam.bas", "x.tar.gz", "m.tsv">>
      [] OTHER -> <<>>

\* the working directories a process is started in
StartDirs == {"/data", "/work"}

\* os.path.abspath semantics: a relative path is taken from the working
\* directory
get_abs_path(path, wd) ==
    IF Len(path) > 0 /\ Char(path, 1) = "/" THEN path ELSE wd \o "/" \o path

exists(path, wd) == \E f \in FS : f.path = get_abs_path(path, wd)

Node(path, wd) == CHOOSE f \in FS : f.path = get_abs_path(path, wd)

\* os.path.isdir(path)
isdir(path, wd) == exists(path, wd) /\ Node(path, wd).kind = "dir"

\* ---------------------------------------------------------- exceptions

NoError == [type |-> "", what |-> "", detail |-> ""]

\* an exception together with the call it came out of
At(exc, where) ==
    [type |-> exc.type, what |-> exc.what, detail |-> exc.detail, at |-> where]

\* raise RuntimeError(what % detail)
RuntimeError(what, detail) == [type |-> "RuntimeError", what |-> what, detail |-> detail]

\* an exception of another class, raised by a library call or a collaborator
Raised(type, detail) == [type |-> type, what |-> "", detail |-> detail]

\* the outcome of a call: its value, or the exception that ended it, and the
\* paths it handed to a checker or opened on the way
Outcome(ok, val, exc, seen) == [ok |-> ok, val |-> val, exc |-> exc, seen |-> seen]

\* check_file_exists(path) passes
check_file_exists(path, wd) == exists(path, wd)

\* SangerQcMetricsExtractor.validate_bas(path) passes: a regular file holding
\* a BAS table
validate_bas(path, wd) ==
    exists(path, wd) /\ Node(path, wd).kind = "file" /\ Node(path, wd).fmt = "bas"

\* SangerQcMetricsExtractor.validate_tar_name(path) passes: the '.tar.gz'
\* extension
validate_tar_name(path) ==
    Len(path) > 7 /\ SubSeq(path, Len(path) - 6, Len(path)) = ".tar.gz"

\* get_sample_name_from_bas(get_bas_content(bas))
get_sample_name_from_bas(bas, wd) == Node(bas, wd).sample

\* ------------------------------------------------------------ locators

\* the loop of lines 211-214 over the entries not yet visited
RECURSIVE ScanBasEntries(_, _, _)
ScanBasEntries(entries, wd, acc) ==
    IF entries = <<>> \/ ~acc.ok THEN acc
    ELSE LET a_file == Head(entries)
         IN  IF ~isdir(a_file, wd) /\ BasNameMatch(a_file)
             THEN IF validate_bas(a_file, wd)
                  THEN ScanBasEntries(Tail(entries), wd,
                           Outcome(TRUE, Append(acc.val, get_abs_path(a_file, wd)),
                                   NoError, Append(acc.seen, a_file)))
                  ELSE Outcome(FALSE, acc.val, Raised("ValidationError", a_file),
                               Append(acc.seen, a_file))
             ELSE ScanBasEntries(Tail(entries), wd, acc)

\* the loop of lines 207-217 over the paths not yet visited
RECURSIVE GetAllBasFrom(_, _, _)
GetAllBasFrom(paths, wd, acc) ==
    IF paths = <<>> \/ ~acc.ok THEN acc
    ELSE LET path == Head(paths)
         IN  IF ~check_file_exists(path, wd)
             THEN Outcome(FALSE, acc.val, Raised("NotFoundError", path), acc.seen)
             ELSE IF isdir(path, wd)
             THEN GetAllBasFrom(Tail(paths), wd, ScanBasEntries(listdir(path), wd, acc))
             ELSE IF validate_bas(path, wd)
             THEN GetAllBasFrom(Tail(paths), wd,
                      Outcome(TRUE, Append(acc.val, get_abs_path(path, wd)),
                              NoError, Append(acc.seen, path)))
             ELSE Outcome(FALSE, acc.val, Raised("ValidationError", path),
                          Append(acc.seen, path))

get_all_bas(input_abs, wd) ==
    GetAllBasFrom(input_abs, wd, Outcome(TRUE, <<>>, NoError, <<>>))

\* the loop of lines 227-229 over the entries not yet visited
RECURSIVE ScanTarEntries(_, _, _)
ScanTarEntries(entries, wd, acc) ==
    IF entries = <<>> THEN acc
    ELSE LET a_file == Head(entries)
         IN  IF ~isdir(a_file, wd) /\ TarNameMatch(a_file)
             THEN ScanTarEntries(Tail(entries), wd,
                      Outcome(TRUE, Append(acc.val, get_abs_path(a_file, wd)),
                              NoError, acc.seen))
             ELSE ScanTarEntries(Tail(entries), wd, acc)

\* the loop of lines 223-232 over the paths not yet visited
RECURSIVE GetAllTarFrom(_, _, _)
GetAllTarFrom(paths, wd, acc) ==
    IF paths = <<>> \/ ~acc.ok THEN acc
    ELSE LET path == Head(paths)
         IN  IF ~check_file_exists(path, wd)
             THEN Outcome(FALSE, acc.val, Raised("NotFoundError", path), acc.seen)
             ELSE IF isdir(path, wd)
             THEN GetAllTarFrom(Tail(paths), wd, ScanTarEntries(listdir(path), wd, acc))
             ELSE IF validate_tar_name(path)
             THEN GetAllTarFrom(Tail(paths), wd,
                      Outcome(TRUE, Append(acc.val, get_abs_path(path, wd)),
                              NoError, Append(acc.seen, path)))
             ELSE Outcome(FALSE, acc.val, Raised("ValidationError", path),
                          Append(acc.seen, path))

get_all_variant_call_tar(input_call_tars, wd) ==
    GetAllTarFrom(input_call_tars, wd, Outcome(TRUE, <<>>, NoError, <<>>))

\* the loop of lines 290-292 over the entries not yet visited
RECURSIVE ScanMetaEntries(_, _, _)
ScanMetaEntries(entries, wd, acc) ==
    IF entries = <<>> THEN acc
    ELSE LET a_file == Head(entries)
         IN  IF ~isdir(a_file, wd) /\ TsvNameMatch(a_file)
             THEN ScanMetaEntries(Tail(entries), wd,
                      Outcome(TRUE, Append(acc.val, get_abs_path(a_file, wd)),
                              NoError, acc.seen))
             ELSE ScanMetaEntries(Tail(entries), wd, acc)

\* the loop of lines 286-294 over the paths not yet visited
RECURSIVE GetAllMetaFrom(_, _, _)
GetAllMetaFrom(paths, wd, acc) ==
    IF paths = <<>> \/ ~acc.ok THEN acc
    ELSE LET path == Head(paths)
         IN  IF ~check_file_exists(path, wd)
             THEN Outcome(FALSE, acc.val, Raised("NotFoundError", path), acc.seen)
             ELSE IF isdir(path, wd)
             THEN GetAllMetaFrom(Tail(paths), wd, ScanMetaEntries(listdir(path), wd, acc))
             ELSE GetAllMetaFrom(Tail(paths), wd,
                      Outcome(TRUE, Append(acc.val, get_abs_path(path, wd)),
                              NoError, acc.seen))

get_all_meta(metadata_paths, wd) ==
    GetAllMetaFrom(metadata_paths, wd, Outcome(TRUE, <<>>, NoError, <<>>))

\* ------------------------------------------------------------- dicts

\* A Python dict is the sequence of its items in insertion order.
Item(k, v) == [k |-> k, v |-> v]

has_key(d, k) == \E i \in 1..Len(d) : d[i].k = k

\* d[k]
dict_get(d, k) == d[CHOOSE i \in 1..Len(d) : d[i].k = k].v

\* d.keys()
dict_keys(d) == [i \in 1..Len(d) |-> d[i].k]

\* d[k] = v: a key already present keeps its place and takes the new value
dict_set(d, k, v) ==
    IF has_key(d, k)
    THEN [i \in 1..Len(d) |-> IF d[i].k = k THEN Item(k, v) ELSE d[i]]
    ELSE Append(d, Item(k, v))

\* set(xs) for a list xs
ToSet(xs) == {xs[i] : i \in 1..Len(xs)}

\* ------------------------------------------- archive identity parser

\* the loop of lines 264-269: the match of the first member that matches
RECURSIVE FirstPairing(_)
FirstPairing(all_files) ==
    IF all_files = <<>> THEN NoMatch
    ELSE LET matches == PairingMatch(Head(all_files))
         IN  IF matches.matched THEN matches ELSE FirstPairing(Tail(all_files))

\* tarfile.open(a_tar, 'r:gz') succeeds
tarfile_open(a_tar, wd) ==
    exists(a_tar, wd) /\ Node(a_tar, wd).kind = "file" /\ Node(a_tar, wd).fmt = "tar"

\* the loop of lines 259-273 over the archives not yet visited; acc.val is
\* t_n_pair_tar, acc.seen the archives opened
RECURSIVE PairsFrom(_, _, _)
PairsFrom(tars, wd, acc) ==
    IF tars = <<>> \/ ~acc.ok THEN acc
    ELSE LET a_tar == Head(tars)
         IN  IF ~tarfile_open(a_tar, wd)
             THEN Outcome(FALSE, acc.val, Raised("tarfile.ReadError", a_tar),
                          Append(acc.seen, a_tar))
             ELSE LET m == FirstPairing(Node(a_tar, wd).members)
                  IN  IF ~m.matched
                      THEN Outcome(FALSE, acc.val,
                               RuntimeError("Not a valid Sanger Variant Call result archive: ",
                                            a_tar),
                               Append(acc.seen, a_tar))
                      ELSE PairsFrom(Tail(tars), wd,
                               Outcome(TRUE, dict_set(acc.val, <<m.t, m.n>>, a_tar),
                                       NoError, Append(acc.seen, a_tar)))

get_all_t_n_pairs(tars, wd) ==
    PairsFrom(tars, wd, Outcome(TRUE, <<>>, NoError, <<>>))

\* ---------------------------------------------------- cohort reconciler

\* the dict comprehension of lines 278-281, over the files not yet visited
RECURSIVE NamesFrom(_, _, _)
NamesFrom(bas_list, wd, d) ==
    IF bas_list = <<>> THEN d
    ELSE NamesFrom(Tail(bas_list), wd,
             dict_set(d, get_sample_name_from_bas(Head(bas_list), wd), Head(bas_list)))

get_sample_names_bas_file_dict(bas_list, wd) == NamesFrom(bas_list, wd, <<>>)

\* the three dicts of a call, as built when it returned or raised
Maps(pairs, t, n) == [t_n_pair_tar |-> pairs, t_name_bas |-> t, n_name_bas |-> n]

\* a faulty not_found that leaves the sort out and keeps the order of the
\* expected list, to try C1 against
not_found_unsorted(expected, name_bas) ==
    LET absent(x) == x \notin ToSet(dict_keys(name_bas))
    IN  SelectSeq(expected, absent)

\* lines 244-247 and 249-252: the names of one role that are expected and
\* have no BAS file, sorted
not_found(expected, name_bas) == sorted(ToSet(expected) \ ToSet(dict_keys(name_bas)))

\* lines 238-239: the tumour (role 1) or normal (role 2) name of every key
expected(pairs, role) == [i \in 1..Len(pairs) |-> pairs[i].k[role]]

\* a faulty check that looks at the tumour names only, to try C4 against
check_expected_tumour_only(pairs, t_names, n_names, seen) ==
    IF ToSet([i \in 1..Len(pairs) |-> pairs[i].k[1]]) \ ToSet(dict_keys(t_names)) # {}
    THEN Outcome(FALSE, Maps(pairs, t_names, n_names),
                 RuntimeError("Missing BAS files for tumour samples: ",
                              join(", ", sorted(ToSet([i \in 1..Len(pairs) |-> pairs[i].k[1]])
                                                \ ToSet(dict_keys(t_names))))),
                 seen)
    ELSE Outcome(TRUE, Maps(pairs, t_names, n_names), NoError, seen)

\* lines 243-254, on the three dicts built by lines 237-241
check_expected(pairs, t_names, n_names, seen) ==
    IF not_found(expected(pairs, 1), t_names) # <<>>
    THEN Outcome(FALSE, Maps(pairs, t_names, n_names),
                 RuntimeError("Missing BAS files for tumour samples: ",
                              join(", ", not_found(expected(pairs, 1), t_names))),
                 seen)
    ELSE IF not_found(expected(pairs, 2), n_names) # <<>>
    THEN Outcome(FALSE, Maps(pairs, t_names, n_names),
                 RuntimeError("Missing BAS files for normal samples: ",
                              join(", ", not_found(expected(pairs, 2), n_names))),
                 seen)
    ELSE Outcome(TRUE, Maps(pairs, t_names, n_names), NoError, seen)

\* lines 237-254, on the outcome of line 237
validated_from(pairs, t_bas, n_bas, wd) ==
    IF ~pairs.ok
    THEN Outcome(FALSE, Maps(pairs.val, <<>>, <<>>), pairs.exc, pairs.seen)
    ELSE check_expected(pairs.val,
                        get_sample_names_bas_file_dict(t_bas, wd),
                        get_sample_names_bas_file_dict(n_bas, wd),
                        pairs.seen)

get_validated_tn_pair_and_bas_lists(t_bas, n_bas, tars, wd) ==
    validated_from(get_all_t_n_pairs(tars, wd), t_bas, n_bas, wd)

\* ------------------------------------------------------------ metadata

\* a local name: not yet assigned, or holding a value
Unbound == [bound |-> FALSE, value |-> <<>>]

Bound(v) == [bound |-> TRUE, value |-> v]

\* the value get_t_n_pair_meta returns (line 305): the tuple (1, 2)
get_t_n_pair_meta(meta_files, t_n_pairs) == <<1, 2>>

\* t_n_pair_meta[t_n_pair] at line 187: the name is unbound when line 157 was
\* skipped, and the tuple it otherwise holds takes no tuple as an index
meta_lookup(meta, t_n_pair) ==
    IF ~meta.bound
    THEN Outcome(FALSE, <<>>, Raised("UnboundLocalError", "t_n_pair_meta"), <<>>)
    ELSE Outcome(FALSE, <<>>,
                 Raised("TypeError", "tuple indices must be integers or slices, not tuple"),
                 <<>>)

\* -------------------------------------------------------------- report

\* the list literal bound to OUTPUT_HEADER when the module is imported
OutputHeaderLiteral ==
    <<"Tumour sample name",
      "Tumour ID",
      "Tumour UUID",
      "Tumour sequencing year",
      "Tumour sequencer",
      "Tumour ReadGroup IDs",
      "Tumour depth per RG",
      "Tumour total depth",
      "Tumour fraction of mapped reads per RG",
      "Tumour mean fraction of mapped reads",
      "Tumour insert size per RG",
      "Tumour mean Insert size",
      "Tumour insert size sd per RG",
      "Tumour mean insert size sd",
      "Tumour r1 GC content per RG",
      "Tumour mean r1 GC content",
      "Tumour r2 GC content per RG",
      "Tumour mean r2 GC content",
      "Tumour fraction of duplicated reads per RG",
      "Tumour mean fraction of duplicated reads",
      "Tumour fraction of mis-matched pairs per RG",
      "Tumour mean fraction of mis-matched pairs",
      "Tumour contamination per RG",
      "Tumour mean contamination",
      "Tumour sex",
      "Tumour fraction of matched sex with Normal",
      "Tumour fraction of matched genotype with Normal",
      "Normal contamination in Tumour",
      "Normal sample name",
      "Normal ID",
      "Normal UUID",
      "Normal sequencing year",
      "Normal sequencer",
      "Normal ReadGroup IDs",
      "Normal depth per RG",
      "Normal total depth",
      "Normal fraction of mapped reads per RG",
      "Normal mean fraction of mapped reads",
      "Normal insert size per RG",
      "Normal mean Insert size",
      "Normal insert size sd per RG",
      "Normal mean insert size sd",
      "Normal r1 GC content per RG",
      "Normal mean r1 GC content",
      "Normal r2 GC content per RG",
      "Normal mean r2 GC content",
      "Normal fraction of duplicated reads per RG",
      "Normal mean fraction of duplicated reads",
      "Normal fraction of mis-matched pairs per RG",
      "Normal mean fraction of mis-matched pairs",
      "Normal contamination per RG",
      "Normal mean contamination",
      "Donor ID",
      "Donor UUID">>

VARIANT_COUNT_HEADER ==
    <<"Number of SNVs (PASS/All)", "Number of INDELs (PASS/All)",
      "Number of SVs (PASS/All)", "Number of CNVs">>

\* sep.join(fields) + end as written to the file: the fields with a
\* separator between each two, then the terminator
RECURSIVE JoinedLine(_, _, _)
JoinedLine(fields, sep, end) ==
    IF fields = <<>> THEN <<end>>
    ELSE IF Len(fields) = 1 THEN <<fields[1], end>>
    ELSE <<fields[1], sep>> \o JoinedLine(Tail(fields), sep, end)

\* extractor.get_metrics(): one value per column of the output schema
get_metrics(with_variants) ==
    [i \in 1..(Len(OutputHeaderLiteral)
               + (IF with_variants THEN Len(VARIANT_COUNT_HEADER) ELSE 0)) |-> "NA"]


\* ----------------------------------------------------------- pre-flight

\* os.remove(path) on a path in the given state
os_remove(state) ==
    IF state = "absent"
    THEN Outcome(FALSE, state, Raised("FileNotFoundError", "os.remove"), <<>>)
    ELSE Outcome(TRUE, "absent", NoError, <<>>)

\* a faulty pre-flight that writes its placeholder without looking whether
\* the output path is taken, to try C5 against
preflight_no_exists_test(a, f) ==
    IF ~a.genome_size_is_int
    THEN Outcome(FALSE, f.state, RuntimeError("genome_size is not int", ""), <<>>)
    ELSE IF ~validate_tar_name(a.output_tar)
    THEN Outcome(FALSE, f.state, Raised("ValidationError", a.output_tar), <<>>)
    ELSE IF f.writable = "ok"
    THEN Outcome(TRUE, os_remove("placeholder").val, NoError, <<>>)
    ELSE IF f.writable = "write_fails"
    THEN Outcome(FALSE, os_remove("placeholder").val,
                 RuntimeError("output is not writable: ", f.writable), <<>>)
    ELSE Outcome(FALSE, "absent", os_remove("absent").exc, <<>>)

\* lines 126-147.  f.state is what is at the output path, f.writable what a
\* write to it meets: the open fails, the open creates the file and the
\* write fails, or both pass.  The finally clause runs in every case, and an
\* exception it raises replaces the one on its way out.
preflight(a, f) ==
    IF ~a.genome_size_is_int
    THEN Outcome(FALSE, f.state, RuntimeError("genome_size is not int", ""), <<>>)
    ELSE IF ~validate_tar_name(a.output_tar)
    THEN Outcome(FALSE, f.state, Raised("ValidationError", a.output_tar), <<>>)
    ELSE IF f.state # "absent"
    THEN Outcome(FALSE, f.state, RuntimeError("existing output file: ", a.output_tar), <<>>)
    ELSE IF f.writable = "ok"
    THEN Outcome(TRUE, os_remove("placeholder").val, NoError, <<>>)
    ELSE IF f.writable = "write_fails"
    THEN Outcome(FALSE, os_remove("placeholder").val,
                 RuntimeError("output is not writable: ", f.writable), <<>>)
    ELSE Outcome(FALSE, "absent", os_remove("absent").exc, <<>>)

\* lines 181-183: header is the list OUTPUT_HEADER itself, and += extends
\* that list in place
extend_header(header, with_variants) ==
    IF with_variants THEN header \o VARIANT_COUNT_HEADER ELSE header

\* ---------------------------------------------------------------- inputs

\* every list of at most n elements of S
ListsUpTo(S, n) == UNION {[1..k -> S] : k \in 0..n}

\* the tumour_bas and the normal_bas argument lists of the runs checked
BasInputs ==
    { <<>>,
      <<"/t1.bam.bas">>,
      <<"/t2.bam.bas", "/t1.bam.bas">>,
      <<"/n1.bam.bas">>,
      <<"/data">>,
      <<"/missing.bam.bas">> }

\* the paths a variant_call_tar argument list is made of
TarArgs ==
    {"/a.tar.gz", "/b.tar.gz", "/j.tar.gz", "/l.tar.gz", "/r.tar.gz", "/data"}

\* the metadata argument lists of the runs checked
MetaInputs == {<<>>, <<"/m.tsv">>, <<"/data">>, <<"/missing.tsv">>}

OutputArgs == {"/out.tar.gz", "/out.txt"}

\* what a run finds at its output path: a file already there, or none and a
\* place where a write passes, where the open fails, or where the open makes
\* the file and the write fails
OutputStates ==
    {[state |-> "original", at_start |-> "original", writable |-> "ok"]}
    \cup {[state |-> "absent", at_start |-> "absent", writable |-> w] :
             w \in {"ok", "open_fails", "write_fails"}}

\* the paths a direct get_all_bas call is given, and the directories it is
\* made from
ProbeArgs == {"/t1.bam.bas", "/n1.bam.bas", "/data", "/missing.bam.bas", "/in"}

ProbeDirs == StartDirs \cup {"/in"}

NoProbe == [input |-> <<>>, called |-> FALSE, result |-> Outcome(TRUE, <<>>, NoError, <<>>)]

\* ----------------------------------------------------------------- run

\* calls so far that extended OUTPUT_HEADER
VariantRuns ==
    (Len(OUTPUT_HEADER) - Len(OutputHeaderLiteral)) \div Len(VARIANT_COUNT_HEADER)

\* the call has ended in an exception; pc stays at the step that raised
Failed == err.type # ""

Locals ==
    <<tumour_bas, normal_bas, variant_call_tars, t_n_pair_tar, t_name_bas,
      n_name_bas, t_n_pair_meta, count_variants>>

NoArgs == [genome_size_is_int |-> TRUE, output_tar |-> "", variant_call_tar |-> <<>>]

Init ==
    /\ cwd \in StartDirs
    /\ OUTPUT_HEADER = OutputHeaderLiteral
    /\ pc = "idle"
    /\ err = At(NoError, "")
    /\ args = NoArgs
    /\ out_file = [state |-> "absent", at_start |-> "absent", writable |-> "ok"]
    /\ touched = {}
    /\ tumour_bas = <<>>
    /\ normal_bas = <<>>
    /\ variant_call_tars = <<>>
    /\ t_n_pair_tar = <<>>
    /\ t_name_bas = <<>>
    /\ n_name_bas = <<>>
    /\ t_n_pair_meta = Unbound
    /\ count_variants = FALSE
    /\ report = <<>>
    /\ extractor_calls = 0
    /\ probe = NoProbe

\* extract_from_sanger(args) is called: a fresh frame, in the process that
\* made the calls before it.  The attributes of args that name input paths
\* are drawn by the step that first reads them.
Invoke ==
    /\ pc \in {"idle", "done"} \/ Failed
    /\ ~probe.called
    /\ \E gs \in BOOLEAN, o \in OutputArgs, f \in OutputStates :
        /\ args' = [genome_size_is_int |-> gs, output_tar |-> o, variant_call_tar |-> <<>>]
        /\ out_file' = f
    /\ pc' = "preflight"
    /\ err' = At(NoError, "")
    /\ touched' = {}
    /\ tumour_bas' = <<>>
    /\ normal_bas' = <<>>
    /\ variant_call_tars' = <<>>
    /\ t_n_pair_tar' = <<>>
    /\ t_name_bas' = <<>>
    /\ n_name_bas' = <<>>
    /\ t_n_pair_meta' = Unbound
    /\ count_variants' = FALSE
    /\ report' = <<>>
    /\ extractor_calls' = 0
    /\ UNCHANGED <<cwd, OUTPUT_HEADER, probe>>

\* lines 122-147
Preflight ==
    /\ pc = "preflight" /\ ~Failed
    /\ out_file' = [out_file EXCEPT !.state = preflight(args, out_file).val]
    /\ pc' = IF preflight(args, out_file).ok THEN "locate_tumour" ELSE pc
    /\ err' = IF preflight(args, out_file).ok THEN err
              ELSE At(preflight(args, out_file).exc, "extract_from_sanger")
    /\ UNCHANGED <<cwd, OUTPUT_HEADER, args, touched, report, extractor_calls, probe>>
    /\ UNCHANGED Locals

\* line 149
LocateTumour ==
    /\ pc = "locate_tumour" /\ ~Failed
    /\ \E input \in BasInputs :
        /\ tumour_bas' = IF get_all_bas(input, cwd).ok
                         THEN get_all_bas(input, cwd).val ELSE tumour_bas
        /\ pc' = IF get_all_bas(input, cwd).ok THEN "locate_normal" ELSE pc
        /\ err' = IF get_all_bas(input, cwd).ok THEN err
                  ELSE At(get_all_bas(input, cwd).exc, "get_all_bas")
    /\ touched' = touched \cup {"tumour_bas"}
    /\ UNCHANGED <<cwd, OUTPUT_HEADER, args, out_file, normal_bas, variant_call_tars,
                   t_n_pair_tar, t_name_bas, n_name_bas, t_n_pair_meta, count_variants,
                   report, extractor_calls, probe>>

\* line 150
LocateNormal ==
    /\ pc = "locate_normal" /\ ~Failed
    /\ \E input \in BasInputs :
        /\ normal_bas' = IF get_all_bas(input, cwd).ok
                         THEN get_all_bas(input, cwd).val ELSE normal_bas
        /\ pc' = IF get_all_bas(input, cwd).ok THEN "locate_tars" ELSE pc
        /\ err' = IF get_all_bas(input, cwd).ok THEN err
                  ELSE At(get_all_bas(input, cwd).exc, "get_all_bas")
    /\ touched' = touched \cup {"normal_bas"}
    /\ UNCHANGED <<cwd, OUTPUT_HEADER, args, out_file, tumour_bas, variant_call_tars,
                   t_n_pair_tar, t_name_bas, n_name_bas, t_n_pair_meta, count_variants,
                   report, extractor_calls, probe>>

\* line 151
LocateTars ==
    /\ pc = "locate_tars" /\ ~Failed
    /\ \E input \in ListsUpTo(TarArgs, MaxTars) :
        /\ args' = [args EXCEPT !.variant_call_tar = input]
        /\ variant_call_tars' = IF get_all_variant_call_tar(input, cwd).ok
                                THEN get_all_variant_call_tar(input, cwd).val
                                ELSE variant_call_tars
        /\ pc' = IF get_all_variant_call_tar(input, cwd).ok THEN "validate" ELSE pc
        /\ err' = IF get_all_variant_call_tar(input, cwd).ok THEN err
                  ELSE At(get_all_variant_call_tar(input, cwd).exc,
                          "get_all_variant_call_tar")
    /\ touched' = touched \cup {"variant_call_tar"}
    /\ UNCHANGED <<cwd, OUTPUT_HEADER, out_file, tumour_bas, normal_bas,
                   t_n_pair_tar, t_name_bas, n_name_bas, t_n_pair_meta, count_variants,
                   report, extractor_calls, probe>>

\* the function a failure of line 153 came out of
RaisedIn(exc) ==
    IF exc.type = "RuntimeError"
       /\ exc.what # "Not a valid Sanger Variant Call result archive: "
    THEN "get_validated_tn_pair_and_bas_lists"
    ELSE "get_all_t_n_pairs"

\* the outcome of line 153 in the current state
Validated ==
    get_validated_tn_pair_and_bas_lists(tumour_bas, normal_bas, variant_call_tars, cwd)

\* lines 153-154.  When the call raises, the three dicts are left as the
\* frame that raised held them.
Validate ==
    /\ pc = "validate" /\ ~Failed
    /\ t_n_pair_tar' = Validated.val.t_n_pair_tar
    /\ t_name_bas' = Validated.val.t_name_bas
    /\ n_name_bas' = Validated.val.n_name_bas
    /\ pc' = IF Validated.ok THEN "metadata" ELSE pc
    /\ err' = IF Validated.ok THEN err ELSE At(Validated.exc, RaisedIn(Validated.exc))
    /\ UNCHANGED <<cwd, OUTPUT_HEADER, args, out_file, touched, tumour_bas, normal_bas,
                   variant_call_tars, t_n_pair_meta, count_variants, report,
                   extractor_calls, probe>>

\* lines 155-159.  args as command_line.main builds it has no attribute
\* metadata and none named count_variants, and reading it at line 155 raises;
\* a caller that builds args itself sets both.
Metadata ==
    /\ pc = "metadata" /\ ~Failed
    /\ \E has_attr \in BOOLEAN, metadata \in MetaInputs,
          cv \in IF VariantRuns < MaxVariantRuns THEN BOOLEAN ELSE {FALSE} :
        IF ~has_attr
        THEN /\ err' = At(Raised("AttributeError", "metadata"), "extract_from_sanger")
             /\ UNCHANGED <<t_n_pair_meta, count_variants, pc, touched>>
        ELSE IF metadata # <<>>
        THEN /\ t_n_pair_meta' =
                    IF get_all_meta(metadata, cwd).ok
                    THEN Bound(get_t_n_pair_meta(get_all_meta(metadata, cwd).val,
                                                 dict_keys(t_n_pair_tar)))
                    ELSE t_n_pair_meta
             /\ count_variants' = IF get_all_meta(metadata, cwd).ok THEN cv
                                  ELSE count_variants
             /\ pc' = IF get_all_meta(metadata, cwd).ok THEN "header" ELSE pc
             /\ err' = IF get_all_meta(metadata, cwd).ok THEN err
                       ELSE At(get_all_meta(metadata, cwd).exc, "get_all_meta")
             /\ touched' = touched \cup {"metadata"}
        ELSE /\ t_n_pair_meta' = t_n_pair_meta
             /\ count_variants' = cv
             /\ pc' = "header"
             /\ err' = err
             /\ touched' = touched
    /\ UNCHANGED <<cwd, OUTPUT_HEADER, args, out_file, tumour_bas, normal_bas,
                   variant_call_tars, t_n_pair_tar, t_name_bas, n_name_bas, report,
                   extractor_calls, probe>>

\* lines 163-184: the header line is written to the metrics file
WriteHeader ==
    /\ pc = "header" /\ ~Failed
    /\ OUTPUT_HEADER' = extend_header(OUTPUT_HEADER, count_variants)
    /\ report' = <<JoinedLine(OUTPUT_HEADER', "\t", "\n")>>
    /\ pc' = "rows"
    /\ UNCHANGED <<cwd, err, args, out_file, touched, extractor_calls, probe>>
    /\ UNCHANGED Locals

\* the pair of the next pass of the loop of line 186: the item after those
\* that already have their line
NextPair == t_n_pair_tar[Len(report)].k

\* lines 186-191, one pass of the loop
ProcessPair ==
    /\ pc = "rows" /\ ~Failed
    /\ Len(report) <= Len(t_n_pair_tar)
    /\ IF meta_lookup(t_n_pair_meta, NextPair).ok
       THEN /\ extractor_calls' = extractor_calls + 1
            /\ report' = Append(report, JoinedLine(get_metrics(count_variants), "\t", "\n"))
            /\ UNCHANGED <<pc, err>>
       ELSE /\ err' = At(meta_lookup(t_n_pair_meta, NextPair).exc, "extract_from_sanger")
            /\ UNCHANGED <<pc, report, extractor_calls>>
    /\ UNCHANGED <<cwd, OUTPUT_HEADER, args, out_file, touched, probe>>
    /\ UNCHANGED Locals

\* lines 193-202, after the last pass of the loop: the bundle is written, or
\* writing it fails and may leave a part of it behind
Package ==
    /\ pc = "rows" /\ ~Failed
    /\ Len(report) > Len(t_n_pair_tar)
    /\ \E result \in {"bundle", "partial", "absent"} :
        /\ out_file' = [out_file EXCEPT !.state = result]
        /\ pc' = IF result = "bundle" THEN "done" ELSE "package"
        /\ err' = IF result = "bundle" THEN err
                  ELSE At(RuntimeError("failed to create the final output: ", result),
                          "extract_from_sanger")
    /\ UNCHANGED <<cwd, OUTPUT_HEADER, args, touched, report, extractor_calls, probe>>
    /\ UNCHANGED Locals

Next ==
    \/ Invoke
    \/ Preflight
    \/ LocateTumour
    \/ LocateNormal
    \/ LocateTars
    \/ Validate
    \/ Metadata
    \/ WriteHeader
    \/ ProcessPair
    \/ Package

Spec == Init /\ [][Next]_vars

\* ------------------------------------------ get_all_bas called directly

ProbeInit ==
    /\ cwd \in ProbeDirs
    /\ OUTPUT_HEADER = OutputHeaderLiteral
    /\ pc = "idle"
    /\ err = At(NoError, "")
    /\ args = NoArgs
    /\ out_file = [state |-> "absent", at_start |-> "absent", writable |-> "ok"]
    /\ touched = {}
    /\ tumour_bas = <<>>
    /\ normal_bas = <<>>
    /\ variant_call_tars = <<>>
    /\ t_n_pair_tar = <<>>
    /\ t_name_bas = <<>>
    /\ n_name_bas = <<>>
    /\ t_n_pair_meta = Unbound
    /\ count_variants = FALSE
    /\ report = <<>>
    /\ extractor_calls = 0
    /\ probe \in {[input |-> i, called |-> FALSE, result |-> NoProbe.result] :
                     i \in ListsUpTo(ProbeArgs, MaxProbePaths)}

\* get_all_bas(probe.input) runs to its return or its raise
ProbeCall ==
    /\ ~probe.called
    /\ probe' = [probe EXCEPT !.called = TRUE, !.result = get_all_bas(probe.input, cwd)]
    /\ UNCHANGED <<cwd, OUTPUT_HEADER, pc, err, args, out_file, touched, report,
                   extractor_calls>>
    /\ UNCHANGED Locals

ProbeNext == ProbeCall

ProbeSpec == ProbeInit /\ [][ProbeNext]_vars

\* ----------------------------------------------------------- properties

\* line 153 has returned
AfterValidate == pc \in {"metadata", "header", "rows", "package", "done"}

\* line 153 has returned or raised
ValidateEnded == AfterValidate \/ (pc = "validate" /\ Failed)

\* get_all_t_n_pairs has returned its map to line 237
ParserReturned ==
    AfterValidate
    \/ (pc = "validate" /\ Failed /\ err.at = "get_validated_tn_pair_and_bas_lists")

\* the run ended in the invalid-archive error
InvalidArchive ==
    /\ pc = "validate" /\ Failed
    /\ err.type = "RuntimeError"
    /\ err.what = "Not a valid Sanger Variant Call result archive: "

MissingMsg(role) ==
    IF role = 1 THEN "Missing BAS files for tumour samples: "
    ELSE "Missing BAS files for normal samples: "

\* the run ended in the missing-sample error
MissingSampleError ==
    /\ pc = "validate" /\ Failed
    /\ err.type = "RuntimeError"
    /\ err.what \in {MissingMsg(1), MissingMsg(2)}

\* E: the tumour (role 1) or normal (role 2) names the PairKeys expect
ExpectedOf(role) == {t_n_pair_tar[i].k[role] : i \in DOMAIN t_n_pair_tar}

\* P: the names the statistics files of that role carry
PresentOf(role) ==
    IF role = 1 THEN {t_name_bas[i].k : i \in DOMAIN t_name_bas}
    ELSE {n_name_bas[i].k : i \in DOMAIN n_name_bas}

MissingOf(role) == ExpectedOf(role) \ PresentOf(role)

SepAt(s, sep, i) ==
    i + Len(sep) - 1 <= Len(s) /\ SubSeq(s, i, i + Len(sep) - 1) = sep

\* where sep first occurs in s, 0 when it does not
FirstSep(s, sep) ==
    IF \E i \in 1..Len(s) : SepAt(s, sep, i)
    THEN CHOOSE i \in 1..Len(s) :
            SepAt(s, sep, i) /\ \A j \in 1..(i - 1) : ~SepAt(s, sep, j)
    ELSE 0

\* the pieces of s that sep separates
RECURSIVE Split(_, _)
Split(s, sep) ==
    IF FirstSep(s, sep) = 0 THEN <<s>>
    ELSE <<SubSeq(s, 1, FirstSep(s, sep) - 1)>>
         \o Split(SubSeq(s, FirstSep(s, sep) + Len(sep), Len(s)), sep)

\* each name is less than the one after it
Ascending(names) ==
    \A i \in 1..(Len(names) - 1) : StrLess(names[i], names[i + 1])

EndsWith(s, suffix) ==
    Len(s) >= Len(suffix) /\ SubSeq(s, Len(s) - Len(suffix) + 1, Len(s)) = suffix

\* C1: given the PairKey map and the two name maps, the reconciler fails with
\* the missing-sample error exactly when some expected name of a role has no
\* statistics file of that role, and the names the error lists are exactly
\* the missing names of the role it reports, in ascending order.
C1_MissingNamesExact ==
    ParserReturned =>
        /\ MissingSampleError <=> (MissingOf(1) # {} \/ MissingOf(2) # {})
        /\ MissingSampleError =>
              \E role \in {1, 2} :
                  /\ err.what = MissingMsg(role)
                  /\ MissingOf(role) # {}
                  /\ ToSet(Split(err.detail, ", ")) = MissingOf(role)
                  /\ Ascending(Split(err.detail, ", "))

\* two tumour names are missing, and the map holds them in descending order
C1_Witness ==
    /\ MissingSampleError
    /\ err.what = MissingMsg(1)
    /\ Cardinality(MissingOf(1)) = 2
    /\ StrLess(t_n_pair_tar[2].k[1], t_n_pair_tar[1].k[1])

\* the characters a sample name is made of: letters, digits, underscore, hyphen
NameChars ==
    Chars("ABCDEFGHIJKLMNOPQRSTUVWXYZabcdefghijklmnopqrstuvwxyz0123456789_-")

IsSampleName(s) == Len(s) >= 1 /\ \A i \in 1..Len(s) : Char(s, i) \in NameChars

\* the ways to read name as WGS_<T>_vs_<N>
Readings(name) ==
    {<<SubSeq(name, 5, j - 1), SubSeq(name, j + 4, Len(name))>> :
        j \in {i \in 6..(Len(name) - 4) :
                  /\ SubSeq(name, 1, 4) = "WGS_"
                  /\ SubSeq(name, i, i + 3) = "_vs_"
                  /\ IsSampleName(SubSeq(name, 5, i - 1))
                  /\ IsSampleName(SubSeq(name, i + 4, Len(name)))}}

HasPairingForm(name) == Readings(name) # {}

MembersOf(a_tar) == (CHOOSE f \in FS : f.path = a_tar).members

\* the members of an archive that have the form, in archive order
FormMembers(a_tar) == SelectSeq(MembersOf(a_tar), HasPairingForm)

\* C2: an archive that has a member named WGS_<T>_vs_<N>, T and N one or more
\* word or hyphen characters each, is given the PairKey of the first such
\* member; an archive with no such member ends the run in the invalid-archive
\* error.  So a map is returned only when every archive has such a member
\* and holds that member's PairKey, and the error names an archive without one.
C2_FirstFormMemberDecides ==
    /\ ParserReturned =>
          \A i \in DOMAIN variant_call_tars :
              /\ FormMembers(variant_call_tars[i]) # <<>>
              /\ \E key \in Readings(Head(FormMembers(variant_call_tars[i]))) :
                    has_key(t_n_pair_tar, key)
    /\ InvalidArchive =>
          /\ err.detail \in ToSet(variant_call_tars)
          /\ FormMembers(err.detail) = <<>>

\* the only member of the archive is WGS_T1_vs_N1_extra_junk
JunkOnly(a_tar) == MembersOf(a_tar) = <<"WGS_T1_vs_N1_extra_junk">>

\* C3 as claimed: a run over an archive whose only candidate member is
\* WGS_T1_vs_N1_extra_junk ends in the invalid-archive error with no output.
C3_ExtraTextRejected ==
    (ValidateEnded /\ \E i \in DOMAIN variant_call_tars : JunkOnly(variant_call_tars[i]))
        => (InvalidArchive /\ report = <<>> /\ out_file.state # "bundle")

\* C3: an archive whose only candidate member is WGS_T1_vs_N1_extra_junk
\* matches the pairing convention, the underscore being a word character: it
\* never draws the invalid-archive error, and the map returned holds the
\* PairKey (T1, N1_extra_junk) for it.
C3_ExtraTextAccepted ==
    /\ InvalidArchive => ~JunkOnly(err.detail)
    /\ ParserReturned =>
          \A i \in DOMAIN variant_call_tars :
              JunkOnly(variant_call_tars[i])
                  => has_key(t_n_pair_tar, <<"T1", "N1_extra_junk">>)

C3_Witness ==
    /\ ParserReturned
    /\ \E i \in DOMAIN variant_call_tars : JunkOnly(variant_call_tars[i])
    /\ has_key(t_n_pair_tar, <<"T1", "N1_extra_junk">>)

\* C4: when the archives parse and some tumour or normal name a PairKey
\* expects has no statistics file, the run has ended in the missing-sample
\* error with no extractor call made and no report line written.
C4_MissingSampleStopsRun ==
    (ParserReturned /\ (MissingOf(1) # {} \/ MissingOf(2) # {})) =>
        /\ MissingSampleError
        /\ extractor_calls = 0
        /\ report = <<>>

\* every tumour has its file, a normal has none, and the run has stopped
C4_Witness ==
    /\ MissingSampleError
    /\ ExpectedOf(1) # {} /\ MissingOf(1) = {}
    /\ MissingOf(2) # {}
    /\ extractor_calls = 0 /\ report = <<>>

\* C5 as claimed: a run that finds a file at its output path fails with the
\* output-exists error, before any input is located, and leaves the file as
\* it was.
C5_ExistingOutputRejected ==
    out_file.at_start = "original" =>
        /\ pc = "preflight"
        /\ touched = {}
        /\ out_file.state = "original"
        /\ Failed => err.what = "existing output file: "

\* C5: a run that finds a file at its output path stops in the pre-flight,
\* before any input is located, and leaves the file as it was; it fails with
\* the output-exists error when genome_size is an int and the output name
\* ends in .tar.gz, and with the error of the one of these two tests that
\* fails otherwise, both tests coming before the look at the output path.
C5_ExistingOutputStopsRun ==
    out_file.at_start = "original" =>
        /\ pc = "preflight"
        /\ touched = {}
        /\ out_file.state = "original"
        /\ Failed =>
              (err.what = "existing output file: "
                  <=> (args.genome_size_is_int /\ EndsWith(args.output_tar, ".tar.gz")))
        /\ (Failed /\ ~args.genome_size_is_int) => err.what = "genome_size is not int"

C5_Witness ==
    /\ out_file.at_start = "original"
    /\ Failed
    /\ err.what = "existing output file: "
    /\ err.detail = args.output_tar
    /\ out_file.state = "original" /\ touched = {}

\* C6: when nothing is at the output path and the placeholder cannot be
\* written, the run fails with the output-unwritable error and no other;
\* when it can, the placeholder is gone before the run goes on.
C6_UnwritableOutputReported ==
    /\ (/\ pc = "preflight" /\ Failed
        /\ args.genome_size_is_int /\ EndsWith(args.output_tar, ".tar.gz")
        /\ out_file.at_start = "absent")
          => (err.type = "RuntimeError" /\ err.what = "output is not writable: ")
    /\ pc \in {"locate_tumour", "locate_normal", "locate_tars", "validate",
               "metadata", "header", "rows"}
          => out_file.state = "absent"

\* C7: a run given no metadata does not fail in the loop that writes the
\* rows: each pair is processed with unknown metadata and gets its row.
C7_AbsentMetadataTolerated ==
    (pc = "rows" /\ ~t_n_pair_meta.bound) => ~Failed

\* the fields of a line written as fields, separators and a terminator
Columns(line) == Len(line) \div 2

\* C8: in every invocation, one that follows others in the same process
\* included, the header line has the columns of the base schema (the list in
\* the source has 54 entries where the claim counts 52) when variant counting
\* is off, and those plus the 4 variant-count columns when it is on.
C8_HeaderWidthFixed ==
    pc \in {"rows", "package", "done"} =>
        Columns(report[1]) =
            Len(OutputHeaderLiteral)
            + (IF count_variants THEN Len(VARIANT_COUNT_HEADER) ELSE 0)

IsDirectory(path) == \E f \in FS : f.path = path /\ f.kind = "dir"

\* the entry of a directory is itself a directory
IsSubdirectory(dir, name) == IsDirectory(dir \o "/" \o name)

\* a directory that holds only subdirectories and files without the
\* statistics-file suffix
NothingToTake(dir) ==
    /\ IsDirectory(dir)
    /\ \A name \in ToSet(listdir(dir)) :
          IsSubdirectory(dir, name) \/ ~EndsWith(name, ".bam.bas")

\* C9: get_all_bas given only directories that hold nothing but
\* subdirectories and files without the .bam.bas suffix returns the empty
\* list, and never hands an entry that is a subdirectory to the format
\* check, whatever the working directory.
C9_SubdirectoriesSkipped ==
    probe.called =>
        /\ (\A i \in DOMAIN probe.input : NothingToTake(probe.input[i]))
              => (probe.result.ok /\ probe.result.val = <<>>)
        /\ \A i \in DOMAIN probe.input :
              \A name \in ToSet(listdir(probe.input[i])) :
                  IsSubdirectory(probe.input[i], name)
                      => name \notin ToSet(probe.result.seen)

\* the archives one path of the variant_call_tar argument gives: the file
\* itself, or the regular files of the directory named *.tar.gz
ArchivesIn(path) ==
    IF IsDirectory(path)
    THEN Cardinality({name \in ToSet(listdir(path)) :
                         ~IsSubdirectory(path, name) /\ EndsWith(name, ".tar.gz")})
    ELSE 1

RECURSIVE ArchivesGiven(_)
ArchivesGiven(paths) ==
    IF paths = <<>> THEN 0 ELSE ArchivesIn(Head(paths)) + ArchivesGiven(Tail(paths))

\* C10: a run that completes has written the header and one line for each
\* archive given as input, every line ending in a line feed: N archives give
\* N + 1 lines.
C10_OneLinePerArchive ==
    pc = "done" =>
        /\ Len(report) = ArchivesGiven(args.variant_call_tar) + 1
        /\ \A i \in DOMAIN report : report[i][Len(report[i])] = "\n"

====
